---- MODULE Spec2Model ----
(***************************************************************************)
(* A model of the ODE curve subsystem of kgjs:                             *)
(*   KG.ODESystemFunction  (src/src/ts/math/odeSystemFunction.ts)          *)
(*   KG.AnimationODE       (src/src/ts/view/viewObjects/animationODE.ts)   *)
(*   KG.Curve              (src/unnamed/part_000)                          *)
(*                                                                         *)
(* Numbers are integers.  The step size dt is 6 model units, so that the   *)
(* factors 0.5*h and h/6 of the RK4 step are the integers 3 and 1 and the  *)
(* integration is computed exactly.  A fractional dotSpacing is the        *)
(* rational n/d.  Strings are sequences of tokens (a token is one lexical  *)
(* unit of the text: a quote, '#', 'rgb', an identifier, an operator).     *)
(***************************************************************************)
EXTENDS Integers, Sequences, FiniteSets, TLC

VARIABLES
    def,      \* the ODESystemDefinition the function was constructed from
    model,    \* the live model: currentParamValues / currentCalcValues / currentColors
    fn,       \* the ODESystemFunction instance
    anim,     \* the AnimationODE instance: _active, _handle, _paused, _restartTimeout
    host,     \* the host: clock, pending setTimeout and requestAnimationFrame callbacks
    dom,      \* the document: the '.moving-dot' and the static dots of the curve,
              \* and the '.moving-dot' under another curve's root
    peer,     \* a second curve's AnimationODE instance and its pending callbacks
    call,     \* the operation performed by the last step, with what it did
    hist      \* history: counts of what has happened so far

vars == <<def, model, fn, anim, host, dom, peer, call, hist>>

(***************************************************************************)
(* Bounds of the model.                                                    *)
(***************************************************************************)
MaxSteps == 3          \* def.steps ranges over 1..MaxSteps
MaxVersion == 2        \* regenerations are explored up to this version
MaxParamChanges == 1   \* parameter changes by the environment in one behaviour
MaxHandle == 3         \* timer / animation-frame handles handed out by the host
MaxAdvances == 2       \* advances of the host clock in one behaviour

(***************************************************************************)
(* Values of dynamic attributes: undefined, boolean, number (n/d), string. *)
(***************************************************************************)
Undef == [t |-> "undef", n |-> 0, d |-> 1, s |-> <<>>]
Bool(b) == [t |-> "bool", n |-> IF b THEN 1 ELSE 0, d |-> 1, s |-> <<>>]
Num(k) == [t |-> "num", n |-> k, d |-> 1, s |-> <<>>]
Frac(k, m) == [t |-> "num", n |-> k, d |-> m, s |-> <<>>]
Str(toks) == [t |-> "str", n |-> 0, d |-> 1, s |-> toks]

\* JavaScript truthiness: !v is true for undefined, false, 0 and "".
Truthy(v) ==
    CASE v.t = "undef" -> FALSE
      [] v.t = "bool" -> v.n = 1
      [] v.t = "num" -> v.n # 0
      [] OTHER -> v.s # <<>>

EmptyMap == [k \in {} |-> 0]

(***************************************************************************)
(* The live model.  Parameters and calculated values are numbers, colors   *)
(* are strings; each is a map from the names it defines.                   *)
(***************************************************************************)
Quotes == {"'", "\""}
NumLit == ("0" :> 0) @@ ("1" :> 1) @@ ("2" :> 2) @@ ("3" :> 3)
Keywords == {"true", "false", "params", "calcs", "colors"}

RECURSIVE trimStart(_)
trimStart(s) == IF s # <<>> /\ Head(s) = " " THEN trimStart(Tail(s)) ELSE s

RECURSIVE trimEnd(_)
trimEnd(s) ==
    IF s # <<>> /\ s[Len(s)] = " " THEN trimEnd(SubSeq(s, 1, Len(s) - 1)) ELSE s

\* String.prototype.trim
trim(s) == trimEnd(trimStart(s))

startsWith(s, tok) == s # <<>> /\ Head(s) = tok

\* trimmed.replace(/^['"]|['"]$/g, ''): one leading and one trailing quote go.
stripOuterQuotes(s) ==
    LET a == IF s # <<>> /\ Head(s) \in Quotes THEN Tail(s) ELSE s
    IN IF a # <<>> /\ a[Len(a)] \in Quotes THEN SubSeq(a, 1, Len(a) - 1) ELSE a

\* with(params){with(calcs){with(colors){ id }}}: the innermost scope that
\* defines the name wins; a name none defines is a ReferenceError.
resolveIdentifier(id, m) ==
    IF id \in DOMAIN m.currentColors
        THEN [ok |-> TRUE, v |-> Str(m.currentColors[id])]
    ELSE IF id \in DOMAIN m.currentCalcValues
        THEN [ok |-> TRUE, v |-> Num(m.currentCalcValues[id])]
    ELSE IF id \in DOMAIN m.currentParamValues
        THEN [ok |-> TRUE, v |-> Num(m.currentParamValues[id])]
    ELSE [ok |-> FALSE, v |-> Undef]

jsAtom(tok, m) ==
    IF tok = "true" THEN [ok |-> TRUE, v |-> Bool(TRUE)]
    ELSE IF tok = "false" THEN [ok |-> TRUE, v |-> Bool(FALSE)]
    ELSE IF tok \in DOMAIN NumLit THEN [ok |-> TRUE, v |-> Num(NumLit[tok])]
    ELSE IF tok \in Keywords \cup {".", "+", "#", "rgb", "hsl"} \cup Quotes
        THEN [ok |-> FALSE, v |-> Undef]
    ELSE resolveIdentifier(tok, m)

\* new Function("params","calcs","colors", "with(...){return " + expr + ";}")
\* applied to the model's three maps.  ok = FALSE: the construction or the
\* call threw (SyntaxError, ReferenceError).  The expressions evaluated are
\* an atom, params.<name> / calcs.<name>, and <atom> + <atom> over numbers.
jsEval(s, m) ==
    LET e == SelectSeq(s, LAMBDA tok : tok # " ")
    IN  IF Len(e) = 1 THEN jsAtom(e[1], m)
        ELSE IF Len(e) = 3 /\ e[2] = "." /\ e[1] \in {"params", "calcs"}
                /\ e[3] \notin DOMAIN NumLit \cup {".", "+"}
            THEN LET o == IF e[1] = "params" THEN m.currentParamValues
                          ELSE m.currentCalcValues
                 IN [ok |-> TRUE,
                     v |-> IF e[3] \in DOMAIN o THEN Num(o[e[3]]) ELSE Undef]
        ELSE IF Len(e) = 3 /\ e[2] = "+"
            THEN LET l == jsAtom(e[1], m)
                     r == jsAtom(e[3], m)
                 IN IF l.ok /\ r.ok /\ l.v.t = "num" /\ r.v.t = "num"
                       /\ l.v.d = 1 /\ r.v.d = 1
                    THEN [ok |-> TRUE, v |-> Num(l.v.n + r.v.n)]
                    ELSE [ok |-> FALSE, v |-> Undef]
        ELSE [ok |-> FALSE, v |-> Undef]

\* an evaluator whose catch returns undefined, not the expression
evaluateExprWithoutFallback(expr, m) ==
    IF expr.t # "str" THEN expr
    ELSE LET trimmed == trim(expr.s)
         IN IF \/ startsWith(trimmed, "'") \/ startsWith(trimmed, "\"")
               \/ startsWith(trimmed, "#")
               \/ startsWith(trimmed, "rgb") \/ startsWith(trimmed, "hsl")
            THEN Str(stripOuterQuotes(trimmed))
            ELSE LET r == jsEval(expr.s, m)
                 IN IF r.ok THEN r.v ELSE Undef

evaluateExpr(expr, m) ==
    IF expr.t # "str" THEN expr
    ELSE LET trimmed == trim(expr.s)
         IN IF \/ startsWith(trimmed, "'") \/ startsWith(trimmed, "\"")
               \/ startsWith(trimmed, "#")
               \/ startsWith(trimmed, "rgb") \/ startsWith(trimmed, "hsl")
            THEN Str(stripOuterQuotes(trimmed))
            ELSE LET r == jsEval(expr.s, m)
                 IN IF r.ok THEN r.v ELSE expr

(***************************************************************************)
(* Derivative formulas (mathjs).                                           *)
(***************************************************************************)
MathOps == {"+", "-", "*"}
IsMathAtom(tok) == tok \notin MathOps \cup {" ", ".", "#"} \cup Quotes

\* math.compile: throws on text that is no expression.  The expressions of
\* the model are: atom, - atom, atom op atom.
mathCompiles(f) ==
    \/ Len(f) = 1 /\ IsMathAtom(f[1])
    \/ Len(f) = 2 /\ f[1] = "-" /\ IsMathAtom(f[2])
    \/ Len(f) = 3 /\ IsMathAtom(f[1]) /\ f[2] \in MathOps /\ IsMathAtom(f[3])

\* the scope { x: state.x, y: state.y, ...scope.params } of one evaluation
mathSymbol(tok, state, params) ==
    IF tok \in DOMAIN NumLit THEN [ok |-> TRUE, v |-> NumLit[tok]]
    ELSE IF tok \in DOMAIN params THEN [ok |-> TRUE, v |-> params[tok]]
    ELSE IF tok = "x" THEN [ok |-> TRUE, v |-> state.x]
    ELSE IF tok = "y" THEN [ok |-> TRUE, v |-> state.y]
    ELSE [ok |-> FALSE, v |-> 0]

mathApply(op, l, r) ==
    CASE op = "+" -> l + r
      [] op = "-" -> l - r
      [] OTHER -> l * r

\* compiled.evaluate(scope); ok = FALSE: it threw (undefined symbol, or no
\* compiled formula to call)
mathEvaluate(f, state, params) ==
    IF Len(f) = 1 THEN mathSymbol(f[1], state, params)
    ELSE IF Len(f) = 2
        THEN LET a == mathSymbol(f[2], state, params)
             IN [ok |-> a.ok, v |-> 0 - a.v]
    ELSE IF Len(f) = 3
        THEN LET l == mathSymbol(f[1], state, params)
                 r == mathSymbol(f[3], state, params)
             IN [ok |-> l.ok /\ r.ok, v |-> mathApply(f[2], l.v, r.v)]
    ELSE [ok |-> FALSE, v |-> 0]

\* MathFunction.updateFunctionString: the formulas of the model hold bare
\* symbols only (no params.* / calcs.* reference), which it leaves as they are.
updateFunctionString(str, scope) == str

\* try { dx = compiled.evaluate(...) } catch { dx = 0 }
evaluateOrZero(f, state, params) ==
    LET caught(e) == IF e.ok THEN e.v ELSE 0
    IN caught(mathEvaluate(f, state, params))

\* one try / catch around both evaluations: a throw zeroes both components
derivBothOrZero(f, state, scope) ==
    LET both(ex, ey) == IF ex.ok /\ ey.ok THEN [dx |-> ex.v, dy |-> ey.v]
                        ELSE [dx |-> 0, dy |-> 0]
    IN both(mathEvaluate(f.dxdtCompiled, state, scope.params),
            mathEvaluate(f.dydtCompiled, state, scope.params))

deriv(f, state, scope) ==
    [dx |-> evaluateOrZero(f.dxdtCompiled, state, scope.params),
     dy |-> evaluateOrZero(f.dydtCompiled, state, scope.params)]

\* 0.5 * h and h / 6, exact because dt is a multiple of 6
Half(h) == h \div 2
Sixth(h) == h \div 6

\* Each slope is computed once and handed on, as the code's constants
\* k1 .. k4 are: s2, s3 and s4s are the intermediate states of the code.
rk4Step(f, s, scope, h) ==
    LET s2(k1) == [x |-> s.x + Half(h) * k1.dx, y |-> s.y + Half(h) * k1.dy]
        s3(k2) == [x |-> s.x + Half(h) * k2.dx, y |-> s.y + Half(h) * k2.dy]
        s4s(k3) == [x |-> s.x + h * k3.dx, y |-> s.y + h * k3.dy]
        result(k1, k2, k3, k4) ==
            [x |-> s.x + Sixth(h) * (k1.dx + 2 * k2.dx + 2 * k3.dx + k4.dx),
             y |-> s.y + Sixth(h) * (k1.dy + 2 * k2.dy + 2 * k3.dy + k4.dy)]
        with3(k1, k2, k3) == result(k1, k2, k3, deriv(f, s4s(k3), scope))
        with2(k1, k2) == with3(k1, k2, deriv(f, s3(k2), scope))
        with1(k1) == with2(k1, deriv(f, s2(k1), scope))
    IN with1(deriv(f, s, scope))

modelScope(m) ==
    [params |-> m.currentParamValues, calcs |-> m.currentCalcValues,
     colors |-> m.currentColors]

\* an integration that goes on from the last state of the trajectory it has
resolveFromLastState(f, params) ==
    IF Len(f.data) > 0 THEN f.data[Len(f.data)]
    ELSE [x |-> f.initial[1], y |-> f.initial[2]]

\* (params["px"] != null) ? params["px"] : fn.initial[0], and the same for y
resolveInitial(f, params) ==
    [x |-> IF "px" \in DOMAIN params THEN params["px"] ELSE f.initial[1],
     y |-> IF "py" \in DOMAIN params THEN params["py"] ELSE f.initial[2]]

\* the loop of generateData: data so far and iterations done; the current
\* state is the one pushed last
RECURSIVE integrate(_, _, _, _)
integrate(f, scope, data, i) ==
    IF i < f.steps
    THEN integrate(f, scope,
                   Append(data, rk4Step(f, data[Len(data)], scope, f.dt)),
                   i + 1)
    ELSE data

\* a version that is written without reading the old one
VersionRestarted(v) == 1

NextVersion(v) == v + 1

\* generateData(): threw = TRUE when math.compile throws; nothing is
\* assigned to data or version then.
generateData(f, m) ==
    LET scope == modelScope(m)
        s0 == resolveInitial(f, scope.params)
        sx == updateFunctionString(f.dxdtDef, scope)
        sy == updateFunctionString(f.dydtDef, scope)
    IN  IF ~mathCompiles(sx) THEN [threw |-> TRUE, fn |-> f]
        ELSE IF ~mathCompiles(sy)
            THEN [threw |-> TRUE, fn |-> [f EXCEPT !.dxdtCompiled = sx]]
        ELSE LET g == [f EXCEPT !.dxdtCompiled = sx, !.dydtCompiled = sy]
                 data == integrate(g, scope, <<s0>>, 0)
             IN [threw |-> FALSE,
                 fn |-> [g EXCEPT !.data = data,
                                  !.version = NextVersion(f.version)]]

(***************************************************************************)
(* Dot sampling.                                                           *)
(***************************************************************************)
DefaultDotSpacing == 10

Max(a, b) == IF a >= b THEN a ELSE b
Min(a, b) == IF a <= b THEN a ELSE b

\* The stride of the sampling loop over a trajectory of `total` states:
\*   let dotSpacing = this.dotSpacing || 10;
\*   if (dotSpacing < 1) dotSpacing = Math.max(1, Math.floor(total * dotSpacing));
\* The numbers of the model are fractions below 1 and integers; true counts
\* as 1.
\* a fractional spacing floored on its own, not as a share of the trajectory
dotStrideUnscaled(spacing, total) ==
    LET sp == IF Truthy(spacing) THEN spacing ELSE Num(DefaultDotSpacing)
    IN IF sp.n < sp.d THEN 1 ELSE sp.n \div sp.d

dotStride(spacing, total) ==
    LET sp == IF Truthy(spacing) THEN spacing ELSE Num(DefaultDotSpacing)
    IN IF sp.n < sp.d THEN Max(1, (total * sp.n) \div sp.d) ELSE sp.n \div sp.d

\* for (let i = 0; i < this.data.length; i += dotSpacing) dots.push(this.data[i]);
RECURSIVE sampleDots(_, _, _, _)
sampleDots(data, stride, i, dots) ==
    IF i < Len(data)
    THEN sampleDots(data, stride, i + stride, Append(dots, data[i + 1]))
    ELSE dots

\* generateDots(): ret is what the call returns, fn the instance after it.
\* A spacing that is a (non-numeric) string makes `i += dotSpacing` a string
\* after the first push, which ends the loop.
generateDots(f) ==
    IF ~Truthy(f.showDots) \/ Len(f.data) = 0 THEN [ret |-> <<>>, fn |-> f]
    ELSE LET dots == IF f.dotSpacing.t = "str" THEN <<f.data[1]>>
                     ELSE sampleDots(f.data,
                                     dotStride(f.dotSpacing, Len(f.data)),
                                     0, <<>>)
         IN [ret |-> dots, fn |-> [f EXCEPT !.dots = dots]]

(***************************************************************************)
(* The update gate, ODESystemFunction.update(force).                       *)
(***************************************************************************)
\* !fn.lastInitial || fn.lastInitial[0] !== x0 || fn.lastInitial[1] !== y0
\* (the constructor's [NaN, NaN] differs from every pair)
changedInitial(f, s0) ==
    f.lastInitial.nan \/ f.lastInitial.x # s0.x \/ f.lastInitial.y # s0.y

\* the snapshot compared with the recorded copy by reference
changedParamsByReference(f, params) == TRUE

\* !fn.lastParams || Object.keys(params).some(k => params[k] !== fn.lastParams[k])
changedParams(f, params) ==
    \E k \in DOMAIN params :
        k \notin DOMAIN f.lastParams \/ params[k] # f.lastParams[k]

\* the eight attributes update() re-evaluates: each from its own current value
DynamicAttributes ==
    {"showDots", "dotSpacing", "dotRadius", "dotColor", "animation", "speed",
     "movingDotColor", "movingDotRadius"}

reevaluateAttribute(f, name, m) == evaluateExpr(f[name], m)

reevaluateDynamic(f, m) ==
    [name \in DOMAIN f |->
        IF name \in DynamicAttributes THEN reevaluateAttribute(f, name, m)
        ELSE f[name]]

isStale(f, m, force) ==
    LET params == m.currentParamValues
    IN \/ force
       \/ changedInitial(f, resolveInitial(f, params))
       \/ changedParams(f, params)
       \/ Len(f.data) = 0

\* super.update(force), the update of the base class MathFunction: it leaves
\* the fields of the model as they are.
superUpdate(f, force) == f

\* update(force): threw = TRUE when generateData() threw; what was assigned
\* before the throw stays assigned.
update(f, m, force) ==
    LET params == m.currentParamValues
        s0 == resolveInitial(f, params)
        stale == isStale(f, m, force)
        \* the stale branch once the baseline is recorded in f2
        regenerate(f2) ==
            LET flagged(f3) == [f3 EXCEPT !.hasChanged = TRUE,
                                          !.graphHasChanged = TRUE]
                generated(g) ==
                    IF g.threw THEN [threw |-> TRUE, stale |-> TRUE, fn |-> g.fn]
                    ELSE [threw |-> FALSE, stale |-> TRUE,
                          fn |-> flagged(IF Truthy(g.fn.showDots)
                                         THEN generateDots(g.fn).fn ELSE g.fn)]
            IN generated(generateData(f2, m))
        branch(f1) ==
            IF stale
            THEN regenerate([f1 EXCEPT !.lastInitial = [nan |-> FALSE,
                                                        x |-> s0.x, y |-> s0.y],
                                       !.lastParams = params])
            ELSE [threw |-> FALSE, stale |-> FALSE,
                  fn |-> [f1 EXCEPT !.hasChanged = FALSE]]
    IN branch(reevaluateDynamic(superUpdate(f, force), m))

\* evaluate(t): the index Math.min(Math.floor(t / this.dt), this.data.length - 1)
evaluateIndex(f, t) == Min(t \div f.dt, Len(f.data) - 1)

\* evaluate(t): this.data[i]; an index outside the array reads undefined,
\* written <<>>, and a state of the trajectory is written <<state>>
evaluate(f, t) ==
    LET at(i) == IF i >= 0 /\ i < Len(f.data) THEN <<f.data[i + 1]>> ELSE <<>>
    IN at(evaluateIndex(f, t))

(***************************************************************************)
(* AnimationODE.  A handle of 0 stands for null.  The operators act on a   *)
(* world w = [anim, host, dom] and return the world after the call.        *)
(***************************************************************************)
DefaultRestartDelay == 1000

NoDot == [present |-> FALSE, cx |-> 0, cy |-> 0]

\* the fields of a fresh AnimationODE
NewAnimation ==
    [active |-> FALSE, handle |-> 0, paused |-> FALSE, restartTimeout |-> 0]

\* a second instance that has done nothing yet
NoPeer == [anim |-> NewAnimation, frames |-> {}, timers |-> {}]

\* a cancelAnimationFrame that cancels nothing
cancelNoFrame(frames, h) == frames

cancelAnimationFrame(frames, h) == {c \in frames : c.id # h}
clearTimeout(pending, h) == {c \in pending : c.id # h}

\* a stop() that leaves the pending animation frame requested
stopWithoutCancel(w) ==
    IF ~w.anim.active /\ w.anim.handle = 0 THEN w
    ELSE [w EXCEPT !.anim.active = FALSE,
                   !.anim.handle = 0,
                   !.dom.movingDot = [present |-> FALSE, cx |-> 0, cy |-> 0],
                   !.dom.others = [present |-> FALSE, cx |-> 0, cy |-> 0]]

\* a stop() that leaves the moving marker in the document
stopKeepingMarker(w) ==
    IF ~w.anim.active /\ w.anim.handle = 0 THEN w
    ELSE [w EXCEPT !.anim.active = FALSE,
                   !.anim.handle = 0,
                   !.host.frames = {c \in w.host.frames : c.id # w.anim.handle}]

\* stop(); d3.selectAll('.moving-dot').remove() selects in the whole
\* document, so the moving dot under every root goes
stop(w) ==
    IF ~w.anim.active /\ w.anim.handle = 0 THEN w
    ELSE [w EXCEPT !.anim.active = FALSE,
                   !.anim.handle = 0,
                   !.host.frames = cancelAnimationFrame(w.host.frames,
                                                        w.anim.handle),
                   !.dom.movingDot = NoDot,
                   !.dom.others = NoDot]

\* the value of `opts.speed || 1` as the fraction n/d
loopSpeed(opts) == IF Truthy(opts.speed) THEN opts.speed ELSE Num(1)

\* start(curve, data, opts): the closure of the new motion loop travels with
\* its pending animation-frame callback: the data array and speed it
\* captured, its frame position (frameN / speed.d) and lastTime.
start(w, data, opts) ==
    LET w1 == stop(w)
    IN  IF ~Truthy(opts.animation) \/ Len(data) = 0 THEN w1
        ELSE LET h == w1.host.nextFrame
                 loop == [id |-> h, data |-> data, speed |-> loopSpeed(opts),
                          frameN |-> 0, lastTime |-> w1.host.now]
             IN [w1 EXCEPT !.anim.active = TRUE,
                           !.anim.handle = h,
                           !.dom.movingDot = IF w1.dom.movingDot.present
                                             THEN w1.dom.movingDot
                                             ELSE [NoDot EXCEPT !.present = TRUE],
                           !.host.frames = w1.host.frames \cup {loop},
                           !.host.nextFrame = h + 1]

\* JavaScript's %: the remainder has the sign of the dividend
jsRem(a, b) == IF a >= 0 THEN a % b ELSE 0 - ((0 - a) % b)

\* The animation-frame callback `animate(time)` of the loop c.
animate(w, c) ==
    LET w0 == [w EXCEPT !.host.frames = w.host.frames \ {c}]
    IN  IF ~w.anim.active \/ Len(c.data) = 0 THEN w0
        ELSE LET time == w.host.now
                 total == Len(c.data)
                 \* speed * delta, with delta = (time - lastTime) / (1000 / 60),
                 \* as a multiple of 1 / speed.d
                 advN == (c.speed.n * (time - c.lastTime) * 60) \div 1000
                 frameN == jsRem(c.frameN + advN, total * c.speed.d)
                 idx == frameN \div c.speed.d
                 p == IF idx >= 0 /\ idx < total THEN c.data[idx + 1]
                      ELSE c.data[1]
                 h == w.host.nextFrame
                 next == [c EXCEPT !.id = h, !.frameN = frameN,
                                   !.lastTime = time]
                 dot == IF w0.dom.movingDot.present
                        THEN [w0.dom.movingDot EXCEPT !.cx = p.x, !.cy = p.y]
                        ELSE w0.dom.movingDot
             IN [w0 EXCEPT !.dom.movingDot = dot,
                           !.anim.handle = h,
                           !.host.frames = w0.host.frames \cup {next},
                           !.host.nextFrame = h + 1]

\* renderDots(curve, data, opts): the circles bound to `data`
renderDots(w, data, opts) ==
    IF ~Truthy(opts.showDots) \/ Len(data) = 0 THEN w
    ELSE [w EXCEPT !.dom.dots = data]

\* isAnimationOn(fn)
isAnimationOn(f, m) ==
    LET val == IF "animation" \in DOMAIN m.currentParamValues
               THEN Num(m.currentParamValues["animation"])
               ELSE evaluateExpr(f.animation, m)
    IN \/ val = Bool(TRUE) \/ val = Num(1)
       \/ val = Str(<<"true">>) \/ val = Str(<<"1">>)

startOptions(f) ==
    [animation |-> f.animation, speed |-> f.speed,
     movingDotColor |-> f.movingDotColor, movingDotRadius |-> f.movingDotRadius]

\* `fn.restartDelay || 1000`
restartDelayOf(f) ==
    IF Truthy(f.restartDelay) THEN f.restartDelay.n ELSE DefaultRestartDelay

\* an update() that forgets the pending timeout without clearing it
cancelRestartHandleOnly(w) == [w EXCEPT !.anim.restartTimeout = 0]

\* the part of update() that cancels the pending timeout
cancelRestart(w) ==
    IF w.anim.restartTimeout # 0
    THEN [w EXCEPT !.host.timers = clearTimeout(w.host.timers,
                                                w.anim.restartTimeout),
                   !.anim.restartTimeout = 0]
    ELSE w

\* the part of update() that arms the restart
armRestart(w, f, m) ==
    IF isAnimationOn(f, m)
    THEN LET h == w.host.nextTimer
         IN [w EXCEPT !.anim.restartTimeout = h,
                      !.host.timers = w.host.timers \cup
                            {[id |-> h, due |-> w.host.now + restartDelayOf(f)]},
                      !.host.nextTimer = h + 1]
    ELSE w

\* AnimationODE.update(curve, fn): the function and the world after the call;
\* threw = TRUE when fn.generateData() threw, which ends the call there.
animUpdate(w, f, m) ==
    LET \* from renderDots on, with the function f1 after generateDots
        schedule(f1) ==
            [threw |-> FALSE, fn |-> f1,
             w |-> armRestart(
                     cancelRestart(
                       stop(renderDots(w, f1.dots,
                                       [showDots |-> f1.showDots,
                                        dotRadius |-> f1.dotRadius,
                                        dotColor |-> f1.dotColor]))),
                     f1, m)]
        generated(g) ==
            IF g.threw THEN [threw |-> TRUE, fn |-> g.fn, w |-> w]
            ELSE schedule(IF Truthy(g.fn.showDots) THEN generateDots(g.fn).fn
                          ELSE g.fn)
    IN generated(generateData(f, m))

\* the callback of the restart timeout c
restartCallback(w, c, f) ==
    LET w1 == [w EXCEPT !.host.timers = w.host.timers \ {c},
                        !.anim.restartTimeout = 0]
    IN IF w1.anim.active THEN w1 ELSE start(w1, f.data, startOptions(f))

\* a pause() that does not look at the active flag
pauseInAnyState(w) == stop([w EXCEPT !.anim.paused = TRUE])

\* pause()
pause(w) ==
    IF w.anim.active THEN stop([w EXCEPT !.anim.paused = TRUE]) ELSE w

\* resume(curve, data, opts)
resume(w, data, opts) ==
    IF w.anim.paused THEN start([w EXCEPT !.anim.paused = FALSE], data, opts)
    ELSE w

(***************************************************************************)
(* Curve (view object).                                                    *)
(***************************************************************************)
\* redraw(): for an ODE curve, this.odeAnimator.update(curve, fn)
redraw(w, f, m) == animUpdate(w, f, m)

\* Curve.update(force) without the clause for the ODE function
needsRedrawForced(f, force) == force

\* what Curve.update(force) decides
needsRedraw(f, force) == force \/ f.hasChanged

(***************************************************************************)
(* Definitions and initial parameter snapshots explored.                   *)
(***************************************************************************)
BaseDef ==
    [dxdt |-> <<"a">>, dydt |-> <<"-", "y">>, initial |-> <<2, 3>>,
     steps |-> MaxSteps, dt |-> 6,
     showDots |-> Bool(TRUE), dotSpacing |-> Num(2), dotRadius |-> Num(3),
     dotColor |-> Str(<<"green">>), animation |-> Bool(TRUE),
     speed |-> Num(1), movingDotColor |-> Str(<<"blue">>),
     movingDotRadius |-> Num(5), restartDelay |-> Num(100)]

EngineDefs ==
    {[BaseDef EXCEPT !.steps = n] : n \in 1 .. MaxSteps}
    \cup {[BaseDef EXCEPT !.dxdt = <<"a", "+">>],
          [BaseDef EXCEPT !.dxdt = <<"y">>, !.dydt = <<"a", "*", "a">>],
          [BaseDef EXCEPT !.dxdt = <<"s">>, !.dydt = <<"a">>],
          [BaseDef EXCEPT !.showDots = Bool(FALSE)],
          [BaseDef EXCEPT !.showDots = Str(<<"s">>),
                          !.dotRadius = Str(<<"params", ".", "s">>),
                          !.speed = Str(<<"a", "+", "s">>),
                          !.dotColor = Str(<<"'", "#", "0f0", "'">>)]}
    \cup {[BaseDef EXCEPT !.dotSpacing = v] :
            v \in {Frac(1, 2), Frac(1, 4), Num(1), Num(0)}}

SchedulerDefs ==
    {BaseDef, [BaseDef EXCEPT !.steps = 1, !.speed = Frac(1, 2)]}
    \cup {[BaseDef EXCEPT !.animation = v, !.restartDelay = Num(0)] :
            v \in {Bool(FALSE), Str(<<" ", "s">>)}}

PlaybackSpeeds == {Num(1), Num(2), Num(3), Frac(1, 2), Num(0), Num(-1)}

PlaybackDefs ==
    {[BaseDef EXCEPT !.speed = v, !.steps = n] :
        v \in PlaybackSpeeds, n \in {1, MaxSteps}}

Defs == EngineDefs \cup SchedulerDefs \cup PlaybackDefs

InitialParams == {("a" :> 1), ("a" :> 1) @@ ("s" :> 1) @@ ("px" :> 1)}

Colors == ("blue" :> <<"#", "00f">>)

\* the constructor of ODESystemFunction
construct(d, m) ==
    [dxdtDef |-> d.dxdt, dydtDef |-> d.dydt,
     dxdtCompiled |-> <<>>, dydtCompiled |-> <<>>,
     steps |-> d.steps, dt |-> d.dt, initial |-> d.initial,
     lastInitial |-> [nan |-> TRUE, x |-> 0, y |-> 0],
     lastParams |-> EmptyMap,
     data |-> <<>>, dots |-> <<>>,
     showDots |-> evaluateExpr(d.showDots, m),
     dotSpacing |-> evaluateExpr(d.dotSpacing, m),
     dotRadius |-> evaluateExpr(d.dotRadius, m),
     dotColor |-> evaluateExpr(d.dotColor, m),
     animation |-> evaluateExpr(d.animation, m),
     speed |-> evaluateExpr(d.speed, m),
     movingDotColor |-> evaluateExpr(d.movingDotColor, m),
     movingDotRadius |-> evaluateExpr(d.movingDotRadius, m),
     restartDelay |-> evaluateExpr(d.restartDelay, m),
     version |-> 0, hasChanged |-> FALSE, graphHasChanged |-> FALSE]

NoCall ==
    [op |-> "new", force |-> FALSE, threw |-> FALSE, stale |-> FALSE,
     regenerated |-> FALSE, replaced |-> FALSE, started |-> FALSE,
     restarted |-> FALSE, ret |-> <<>>]

Init ==
    /\ def \in Defs
    /\ \E p \in InitialParams :
         model = [currentParamValues |-> p, currentCalcValues |-> EmptyMap,
                  currentColors |-> Colors]
    /\ fn = construct(def, model)
    /\ anim = [active |-> FALSE, handle |-> 0, paused |-> FALSE,
               restartTimeout |-> 0]
    /\ host = [now |-> 0, timers |-> {}, frames |-> {}, nextTimer |-> 1,
               nextFrame |-> 1]
    /\ dom = [movingDot |-> NoDot, dots |-> <<>>, others |-> NoDot]
    /\ peer = NoPeer
    /\ call = NoCall
    /\ hist = [paramChanges |-> 0, advances |-> 0, regens |-> 0,
               direct |-> 0, updateAt |-> 0]

World == [anim |-> anim, host |-> host, dom |-> dom]

\* call: the operation of the last step.  regenerated: generateData() ran to
\* its end; replaced: update() cancelled a pending restart timeout; started:
\* a motion loop was started; restarted: it was started while one was active.
\* hist.direct: generateData() or generateDots() was called from outside the
\* gate and the scheduler.  hist.updateAt: the time of the last
\* AnimationODE.update().

\* a step may hand out handles only up to MaxHandle
WithinHandles(w) ==
    w.host.nextTimer <= MaxHandle + 1 /\ w.host.nextFrame <= MaxHandle + 1

SetWorld(w) ==
    /\ WithinHandles(w)
    /\ anim' = w.anim
    /\ host' = w.host
    /\ dom' = w.dom

\* the operations that call start(), and whether the call started a loop
Starters == {"timer", "resume"}

LoopStarted(op, w0, w1) ==
    op \in Starters /\ w1.host.nextFrame > w0.host.nextFrame /\ w1.anim.active

(***************************************************************************)
(* Actions.                                                                *)
(***************************************************************************)
\* the environment sets, adds or removes one parameter
SetParam(k, v) ==
    /\ hist.paramChanges < MaxParamChanges
    /\ IF k \in DOMAIN model.currentParamValues
       THEN model.currentParamValues[k] # v ELSE TRUE
    /\ model' = [model EXCEPT !.currentParamValues =
                    [n \in DOMAIN @ \cup {k} |-> IF n = k THEN v ELSE @[n]]]
    /\ hist' = [hist EXCEPT !.paramChanges = @ + 1]
    /\ call' = [NoCall EXCEPT !.op = "setParam"]
    /\ UNCHANGED <<peer, def, fn, anim, host, dom>>

RemoveParam(k) ==
    /\ hist.paramChanges < MaxParamChanges
    /\ k \in DOMAIN model.currentParamValues
    /\ model' = [model EXCEPT !.currentParamValues =
                    [n \in DOMAIN @ \ {k} |-> @[n]]]
    /\ hist' = [hist EXCEPT !.paramChanges = @ + 1]
    /\ call' = [NoCall EXCEPT !.op = "removeParam"]
    /\ UNCHANGED <<peer, def, fn, anim, host, dom>>

\* the model's tick calls fn.update(force)
GateUpdate(force) ==
    \E r \in {update(fn, model, force)} :
       /\ r.fn.version <= MaxVersion
       /\ fn' = r.fn
       /\ call' = [NoCall EXCEPT !.op = "gate", !.force = force,
                                 !.threw = r.threw, !.stale = r.stale,
                                 !.regenerated = r.stale /\ ~r.threw]
       /\ hist' = [hist EXCEPT !.regens =
                      IF r.stale /\ ~r.threw THEN @ + 1 ELSE @]
       /\ UNCHANGED <<peer, def, model, anim, host, dom>>

GenerateData ==
    \E r \in {generateData(fn, model)} :
       /\ r.fn.version <= MaxVersion
       /\ fn' = r.fn
       /\ call' = [NoCall EXCEPT !.op = "generateData", !.threw = r.threw,
                                 !.regenerated = ~r.threw]
       /\ hist' = [hist EXCEPT !.regens = IF r.threw THEN @ ELSE @ + 1,
                               !.direct = 1]
       /\ UNCHANGED <<peer, def, model, anim, host, dom>>

GenerateDots ==
    \E r \in {generateDots(fn)} :
       /\ fn' = r.fn
       /\ call' = [NoCall EXCEPT !.op = "generateDots", !.ret = r.ret]
       /\ hist' = [hist EXCEPT !.direct = 1]
       /\ UNCHANGED <<peer, def, model, anim, host, dom>>

\* AnimationODE.update(curve, fn), as redraw() calls it
SchedulerUpdate(op, force) ==
    \E r \in {redraw(World, fn, model)} :
       /\ r.fn.version <= MaxVersion
       /\ fn' = r.fn
       /\ SetWorld(r.w)
       /\ call' = [NoCall EXCEPT !.op = op, !.force = force,
                                 !.threw = r.threw,
                                 !.regenerated = ~r.threw,
                                 !.replaced = ~r.threw
                                              /\ anim.restartTimeout # 0]
       /\ hist' = [hist EXCEPT
                     !.regens = IF r.threw THEN @ ELSE @ + 1,
                     !.updateAt = IF r.threw THEN @ ELSE host.now]
       /\ UNCHANGED <<peer, def, model>>

\* the redraw that draw() schedules, and any later direct redraw
Redraw == SchedulerUpdate("redraw", FALSE)

\* Curve.update(force): it redraws if needsRedraw, and returns otherwise
CurveUpdate(force) ==
    IF needsRedraw(fn, force)
    THEN SchedulerUpdate("curveUpdate", force)
    ELSE /\ call' = [NoCall EXCEPT !.op = "curveUpdateNoRedraw", !.force = force]
         /\ UNCHANGED <<peer, def, model, fn, anim, host, dom, hist>>

Other(op, w) ==
    /\ SetWorld(w)
    /\ call' = [NoCall EXCEPT !.op = op, !.started = LoopStarted(op, World, w),
                              !.restarted = LoopStarted(op, World, w)
                                            /\ anim.active]
    /\ UNCHANGED <<peer, def, model, fn, hist>>

\* stop(); it returns at once when nothing is active
Stop ==
    /\ anim.active \/ anim.handle # 0
    /\ Other("stop", stop(World))

\* pause(); it does nothing unless a loop is active
Pause ==
    /\ anim.active
    /\ Other("pause", pause(World))

\* what a caller hands to resume(curve, data, opts): the function's
\* trajectory and options, the options with animation off, or no data
ResumeInputs ==
    {[data |-> fn.data, opts |-> startOptions(fn)],
     [data |-> fn.data,
      opts |-> [startOptions(fn) EXCEPT !.animation = Bool(FALSE)]],
     [data |-> <<>>, opts |-> startOptions(fn)]}

\* resume(curve, data, opts); it does nothing unless paused
Resume(data, opts) ==
    /\ anim.paused
    /\ Other("resume", resume(World, data, opts))

\* the restart timeout c expires
TimerFire(c) ==
    /\ c \in host.timers
    /\ c.due <= host.now
    /\ Other("timer", restartCallback(World, c, fn))

\* the host runs the animation-frame callback c
FrameCallback(c) ==
    /\ c \in host.frames
    /\ Other("frame", animate(World, c))

AdvanceSteps == {50, 1000}

Advance(d) ==
    /\ hist.advances < MaxAdvances
    /\ host' = [host EXCEPT !.now = @ + d]
    /\ hist' = [hist EXCEPT !.advances = @ + 1]
    /\ call' = [NoCall EXCEPT !.op = "advance"]
    /\ UNCHANGED <<peer, def, model, fn, anim, dom>>

\* evaluate(t): a read; the call returns data[i], undefined outside the array
Evaluate(tm) ==
    /\ call' = [NoCall EXCEPT !.op = "evaluate", !.ret = evaluate(fn, tm)]
    /\ UNCHANGED <<peer, def, model, fn, anim, host, dom, hist>>

(***************************************************************************)
(* Two specifications.  EngineSpec explores the function object under many *)
(* definitions and parameter changes, with every operation that reaches    *)
(* it; Spec explores the scheduler with the host's timers, animation       *)
(* frames and clock.                                                       *)
(***************************************************************************)
EngineEdits == {<<"a", 2>>, <<"s", 0>>, <<"px", 1>>, <<"py", 0>>}
EngineRemovals == {"px"}
EvaluateTimes == {-6, 7, 100}

EngineInit == Init /\ def \in EngineDefs

EngineNext ==
    \/ \E e \in EngineEdits : SetParam(e[1], e[2])
    \/ \E k \in EngineRemovals : RemoveParam(k)
    \/ \E force \in BOOLEAN : GateUpdate(force)
    \/ GenerateData
    \/ GenerateDots
    \/ \E tm \in EvaluateTimes : Evaluate(tm)
    \/ Redraw
    \/ \E force \in BOOLEAN : CurveUpdate(force)

EngineSpec == EngineInit /\ [][EngineNext]_vars

SchedulerEdits == {<<"animation", 1>>, <<"animation", 0>>}

\* the scheduler is explored from the snapshot that defines every
\* parameter its definitions refer to
SchedulerParams == ("a" :> 1) @@ ("s" :> 1) @@ ("px" :> 1)

SchedulerInit ==
    Init /\ def \in SchedulerDefs /\ model.currentParamValues = SchedulerParams

Next ==
    \/ \E e \in SchedulerEdits : SetParam(e[1], e[2])
    \/ \E force \in BOOLEAN : GateUpdate(force)
    \/ Redraw
    \/ \E force \in BOOLEAN : CurveUpdate(force)
    \/ Stop
    \/ Pause
    \/ \E i \in ResumeInputs : Resume(i.data, i.opts)
    \/ \E c \in host.timers : TimerFire(c)
    \/ \E c \in host.frames : FrameCallback(c)
    \/ \E d \in AdvanceSteps : Advance(d)

Spec == SchedulerInit /\ [][Next]_vars

(***************************************************************************)
(* A specification of two animated curves in one document.  Each curve has *)
(* its own AnimationODE; the host's clock and handle counters and the      *)
(* document are shared.  The second instance runs the same code: its       *)
(* operations are the operators above applied to the world as that         *)
(* instance sees it, with its own fields, its own pending callbacks and    *)
(* the moving dot under its own root.                                      *)
(***************************************************************************)
PeerWorld ==
    [anim |-> peer.anim,
     host |-> [host EXCEPT !.frames = peer.frames, !.timers = peer.timers],
     dom |-> [dom EXCEPT !.movingDot = dom.others, !.others = dom.movingDot]]

SetPeerWorld(w) ==
    /\ WithinHandles(w)
    /\ peer' = [anim |-> w.anim, frames |-> w.host.frames,
                timers |-> w.host.timers]
    /\ host' = [w.host EXCEPT !.frames = host.frames, !.timers = host.timers]
    /\ dom' = [w.dom EXCEPT !.movingDot = w.dom.others,
                            !.others = w.dom.movingDot]
    /\ anim' = anim

\* the trajectory and the options the second curve's loop is started with
PeerData == <<[x |-> 0, y |-> 0], [x |-> 1, y |-> 1]>>

PeerOptions ==
    [animation |-> Bool(TRUE), speed |-> Num(1),
     movingDotColor |-> Str(<<"blue">>), movingDotRadius |-> Num(5)]

PeerOther(op, w) ==
    /\ SetPeerWorld(w)
    /\ call' = [NoCall EXCEPT !.op = op]
    /\ UNCHANGED <<def, model, fn, hist>>

\* the second curve's start(), reached from its restart timeout
PeerStart ==
    /\ ~peer.anim.active
    /\ PeerOther("peerStart", start(PeerWorld, PeerData, PeerOptions))

\* the host runs the animation-frame callback c of the second curve
PeerFrameCallback(c) ==
    /\ c \in peer.frames
    /\ PeerOther("peerFrame", animate(PeerWorld, c))

\* the second curve's stop()
PeerStop ==
    /\ peer.anim.active \/ peer.anim.handle # 0
    /\ PeerOther("peerStop", stop(PeerWorld))

TwoCurveInit == SchedulerInit /\ def = BaseDef

TwoCurveNext ==
    \/ Redraw
    \/ Stop
    \/ Pause
    \/ \E i \in ResumeInputs : Resume(i.data, i.opts)
    \/ \E c \in host.timers : TimerFire(c)
    \/ \E c \in host.frames : FrameCallback(c)
    \/ \E d \in AdvanceSteps : Advance(d)
    \/ PeerStart
    \/ \E c \in peer.frames : PeerFrameCallback(c)
    \/ PeerStop

TwoCurveSpec == TwoCurveInit /\ [][TwoCurveNext]_vars

(***************************************************************************)
(* A specification of playback alone: one update(), then the timer and the *)
(* animation frames as the clock advances, for several speeds.             *)
(***************************************************************************)
PlaybackInit ==
    /\ Init
    /\ def \in PlaybackDefs
    /\ model.currentParamValues = SchedulerParams

PlaybackNext ==
    \/ Redraw
    \/ \E c \in host.timers : TimerFire(c)
    \/ \E c \in host.frames : FrameCallback(c)
    \/ \E d \in AdvanceSteps : Advance(d)

PlaybackSpec == PlaybackInit /\ [][PlaybackNext]_vars

(***************************************************************************)
(* IEEE 754 double arithmetic, for the numbers generateData() computes     *)
(* with.  A double is m * 2^e, m a whole number of MantissaBits bits; zero *)
(* is m = 0.  Whole numbers of that size are written as their digits to    *)
(* the base Limb, lowest first and without high zeros.  Results are        *)
(* rounded to nearest, ties to even.  Only non-negative values occur.      *)
(***************************************************************************)
MantissaBits == 53
LimbBits == 14
Limb == 16384

RECURSIVE pow2(_)
pow2(k) == IF k = 0 THEN 1 ELSE 2 * pow2(k - 1)

RECURSIVE bitLength(_)
bitLength(k) == IF k = 0 THEN 0 ELSE 1 + bitLength(k \div 2)

RECURSIVE bigOf(_)
bigOf(k) == IF k = 0 THEN <<>> ELSE <<k % Limb>> \o bigOf(k \div Limb)

RECURSIVE bigTrim(_)
bigTrim(n) ==
    IF Len(n) > 0 /\ n[Len(n)] = 0
    THEN bigTrim(SubSeq(n, 1, Len(n) - 1)) ELSE n

bigBits(n) ==
    IF Len(n) = 0 THEN 0
    ELSE (Len(n) - 1) * LimbBits + bitLength(n[Len(n)])

bigLimb(n, i) == IF i >= 1 /\ i <= Len(n) THEN n[i] ELSE 0

\* bit j of n, counted from 0
bigBit(n, j) ==
    (bigLimb(n, j \div LimbBits + 1) \div pow2(j % LimbBits)) % 2

\* n * 2^k
bigShl(n, k) ==
    LET q == k \div LimbBits
        s == k % LimbBits
    IN bigTrim([i \in 1 .. Len(n) + q + 1 |->
                  (bigLimb(n, i - q) % pow2(LimbBits - s)) * pow2(s)
                  + bigLimb(n, i - q - 1) \div pow2(LimbBits - s)])

\* floor(n / 2^k)
bigShr(n, k) ==
    LET q == k \div LimbBits
        s == k % LimbBits
    IN bigTrim([i \in 1 .. Max(0, Len(n) - q) |->
                  bigLimb(n, i + q) \div pow2(s)
                  + (bigLimb(n, i + q + 1) % pow2(s)) * pow2(LimbBits - s)])

RECURSIVE bigAddCarry(_, _, _)
bigAddCarry(a, b, c) ==
    IF Len(a) = 0 /\ Len(b) = 0 THEN (IF c = 0 THEN <<>> ELSE <<c>>)
    ELSE LET sum(s) == <<s % Limb>>
                        \o bigAddCarry(IF Len(a) > 0 THEN Tail(a) ELSE a,
                                       IF Len(b) > 0 THEN Tail(b) ELSE b,
                                       s \div Limb)
         IN sum(bigLimb(a, 1) + bigLimb(b, 1) + c)

bigAdd(a, b) == bigAddCarry(a, b, 0)

RECURSIVE bigMulLimb(_, _, _)
bigMulLimb(a, d, c) ==
    IF Len(a) = 0 THEN (IF c = 0 THEN <<>> ELSE <<c>>)
    ELSE LET digit(t) == <<t % Limb>> \o bigMulLimb(Tail(a), d, t \div Limb)
         IN digit(a[1] * d + c)

RECURSIVE bigMul(_, _)
bigMul(a, b) ==
    IF Len(a) = 0 \/ Len(b) = 0 THEN <<>>
    ELSE bigTrim(bigAdd(bigMulLimb(a, b[1], 0), <<0>> \o bigMul(a, Tail(b))))

\* long division by a small number, from digit i down: quotient and
\* remainder
RECURSIVE bigDivSmall(_, _, _, _)
bigDivSmall(a, d, i, r) ==
    IF i = 0 THEN [q |-> <<>>, r |-> r]
    ELSE LET digit(t, rest) == [q |-> Append(rest.q, t \div d), r |-> rest.r]
             with(t) == digit(t, bigDivSmall(a, d, i - 1, t % d))
         IN with(r * Limb + a[i])

DoubleZero == [m |-> <<>>, e |-> 0]

\* a mantissa that ran over by one bit after rounding up ends in a zero
renormalise(m, e) ==
    IF bigBits(m) > MantissaBits THEN [m |-> bigShr(m, 1), e |-> e + 1]
    ELSE [m |-> m, e |-> e]

\* the double nearest to n * 2^e (+ a little, when sticky), ties to even
roundToDouble(n, e, sticky) ==
    IF Len(n) = 0 THEN DoubleZero
    ELSE IF bigBits(n) <= MantissaBits
        THEN [m |-> bigShl(n, MantissaBits - bigBits(n)),
              e |-> e - (MantissaBits - bigBits(n))]
    ELSE LET k == bigBits(n) - MantissaBits
             below == sticky \/ \E j \in 0 .. k - 2 : bigBit(n, j) = 1
             up == /\ bigBit(n, k - 1) = 1
                   /\ (below \/ bigBit(n, k) = 1)
         IN IF up THEN renormalise(bigAdd(bigShr(n, k), <<1>>), e + k)
            ELSE [m |-> bigShr(n, k), e |-> e + k]

fromInt(k) == roundToDouble(bigOf(k), 0, FALSE)

\* the mantissa without its low zero bits, and the exponent that goes with it
oddPart(p) ==
    LET zeros == CHOOSE j \in 0 .. MantissaBits - 1 :
                    /\ bigBit(p.m, j) = 1
                    /\ \A i \in 0 .. j - 1 : bigBit(p.m, i) = 0
    IN [m |-> bigShr(p.m, zeros), e |-> p.e + zeros]

\* p + q
fAdd(p, q) ==
    IF Len(p.m) = 0 THEN q
    ELSE IF Len(q.m) = 0 THEN p
    ELSE roundToDouble(bigAdd(bigShl(p.m, p.e - Min(p.e, q.e)),
                              bigShl(q.m, q.e - Min(p.e, q.e))),
                       Min(p.e, q.e), FALSE)

\* p * q
fMul(p, q) ==
    IF Len(p.m) = 0 \/ Len(q.m) = 0 THEN DoubleZero
    ELSE LET product(a, b) ==
                 roundToDouble(bigMul(a.m, b.m), a.e + b.e, FALSE)
         IN product(oddPart(p), oddPart(q))

\* p / d for a small whole number d: the quotient keeps 8 bits more than a
\* mantissa, less those d takes, and the remainder tells whether it is exact
fDivSmall(p, d) ==
    IF Len(p.m) = 0 THEN DoubleZero
    ELSE LET n == bigShl(p.m, 8)
             rounded(r) == roundToDouble(bigTrim(r.q), p.e - 8, r.r # 0)
         IN rounded(bigDivSmall(n, d, Len(n), 0))

\* deriv() with the value of each formula as a double; the formulas of the
\* floating-point runs do not refer to x or y
derivDouble(f, state, scope) ==
    [dx |-> fromInt(evaluateOrZero(f.dxdtCompiled, state, scope.params)),
     dy |-> fromInt(evaluateOrZero(f.dydtCompiled, state, scope.params))]

\* 0.5 * h
halfOf(h) == IF Len(h.m) = 0 THEN h ELSE [h EXCEPT !.e = @ - 1]

\* rk4Step() that weighs the four slopes alike
rk4StepDoubleUnweighted(f, s, scope, h) ==
    LET s2(k1) == [x |-> fAdd(s.x, fMul(halfOf(h), k1.dx)),
                   y |-> fAdd(s.y, fMul(halfOf(h), k1.dy))]
        s3(k2) == [x |-> fAdd(s.x, fMul(halfOf(h), k2.dx)),
                   y |-> fAdd(s.y, fMul(halfOf(h), k2.dy))]
        s4s(k3) == [x |-> fAdd(s.x, fMul(h, k3.dx)),
                    y |-> fAdd(s.y, fMul(h, k3.dy))]
        slope(a, b, c, d) == fAdd(fAdd(fAdd(a, b), c), d)
        result(k1, k2, k3, k4) ==
            [x |-> fAdd(s.x, fMul(fDivSmall(h, 6),
                                  slope(k1.dx, k2.dx, k3.dx, k4.dx))),
             y |-> fAdd(s.y, fMul(fDivSmall(h, 6),
                                  slope(k1.dy, k2.dy, k3.dy, k4.dy)))]
        with3(k1, k2, k3) == result(k1, k2, k3, derivDouble(f, s4s(k3), scope))
        with2(k1, k2) == with3(k1, k2, derivDouble(f, s3(k2), scope))
        with1(k1) == with2(k1, derivDouble(f, s2(k1), scope))
    IN with1(derivDouble(f, s, scope))

\* rk4Step() in doubles, operation for operation
rk4StepDouble(f, s, scope, h) ==
    LET s2(k1) == [x |-> fAdd(s.x, fMul(halfOf(h), k1.dx)),
                   y |-> fAdd(s.y, fMul(halfOf(h), k1.dy))]
        s3(k2) == [x |-> fAdd(s.x, fMul(halfOf(h), k2.dx)),
                   y |-> fAdd(s.y, fMul(halfOf(h), k2.dy))]
        s4s(k3) == [x |-> fAdd(s.x, fMul(h, k3.dx)),
                    y |-> fAdd(s.y, fMul(h, k3.dy))]
        slope(a, b, c, d) ==
            fAdd(fAdd(fAdd(a, fMul(fromInt(2), b)), fMul(fromInt(2), c)), d)
        result(k1, k2, k3, k4) ==
            [x |-> fAdd(s.x, fMul(fDivSmall(h, 6),
                                  slope(k1.dx, k2.dx, k3.dx, k4.dx))),
             y |-> fAdd(s.y, fMul(fDivSmall(h, 6),
                                  slope(k1.dy, k2.dy, k3.dy, k4.dy)))]
        with3(k1, k2, k3) == result(k1, k2, k3, derivDouble(f, s4s(k3), scope))
        with2(k1, k2) == with3(k1, k2, derivDouble(f, s3(k2), scope))
        with1(k1) == with2(k1, derivDouble(f, s2(k1), scope))
    IN with1(derivDouble(f, s, scope))

(***************************************************************************)
(* A third specification, of the loop of generateData() alone, step by     *)
(* step and in double arithmetic: fn.data holds the local array `data` of  *)
(* the call in progress.  The derivative formulas are constants.           *)
(***************************************************************************)
MaxDoubleSteps == 10

\* the double the literal 0.1 stands for, and 0.5
DoubleTenth == fDivSmall(fromInt(1), 10)
DoubleHalf == fDivSmall(fromInt(1), 2)

DoubleDefs ==
    {[BaseDef EXCEPT !.dxdt = <<a>>, !.dydt = <<b>>, !.initial = s0,
                     !.dt = h, !.steps = MaxDoubleSteps] :
        a \in {"0", "1", "3"}, b \in {"0", "2"},
        s0 \in {<<0, 0>>, <<2, 3>>}, h \in {DoubleTenth, DoubleHalf}}

\* the resolved initial condition as doubles
initialDouble(f, params) ==
    [x |-> fromInt(resolveInitial(f, params).x),
     y |-> fromInt(resolveInitial(f, params).y)]

\* generateData() up to its first data.push: the formulas are compiled, the
\* initial state is resolved and pushed
DoubleInit ==
    /\ def \in DoubleDefs
    /\ model = [currentParamValues |-> ("a" :> 1),
                currentCalcValues |-> EmptyMap, currentColors |-> Colors]
    /\ \E f \in {construct(def, model)} :
         fn = [f EXCEPT !.dxdtCompiled = updateFunctionString(def.dxdt,
                                                              modelScope(model)),
                        !.dydtCompiled = updateFunctionString(def.dydt,
                                                              modelScope(model)),
                        !.data = <<initialDouble(f, model.currentParamValues)>>]
    /\ anim = [active |-> FALSE, handle |-> 0, paused |-> FALSE,
               restartTimeout |-> 0]
    /\ host = [now |-> 0, timers |-> {}, frames |-> {}, nextTimer |-> 1,
               nextFrame |-> 1]
    /\ dom = [movingDot |-> NoDot, dots |-> <<>>, others |-> NoDot]
    /\ peer = NoPeer
    /\ call = [NoCall EXCEPT !.op = "compile"]
    /\ hist = [paramChanges |-> 0, advances |-> 0, regens |-> 0,
               direct |-> 1, updateAt |-> 0]

\* one pass of the loop: state = rk4Step(state, scope, dt); data.push(state)
IntegrateStep ==
    /\ call.op \in {"compile", "rk4Step"}
    /\ Len(fn.data) <= fn.steps
    /\ fn' = [fn EXCEPT !.data =
                 Append(@, rk4StepDouble(fn, fn.data[Len(fn.data)],
                                         modelScope(model), fn.dt))]
    /\ call' = [NoCall EXCEPT !.op = "rk4Step"]
    /\ UNCHANGED <<peer, def, model, anim, host, dom, hist>>

\* the end of generateData(): this.data = data; version + 1
FinishGenerateData ==
    /\ call.op \in {"compile", "rk4Step"}
    /\ Len(fn.data) = fn.steps + 1
    /\ fn' = [fn EXCEPT !.version = NextVersion(@)]
    /\ call' = [NoCall EXCEPT !.op = "generateData", !.regenerated = TRUE]
    /\ hist' = [hist EXCEPT !.regens = @ + 1]
    /\ UNCHANGED <<peer, def, model, anim, host, dom>>

DoubleNext == IntegrateStep \/ FinishGenerateData

DoubleSpec == DoubleInit /\ [][DoubleNext]_vars

(***************************************************************************)
(* The claims.  What a claim says is stated here from its own words: the   *)
(* resolved initial condition, the staleness conditions and the sampled    *)
(* indices are written out again, not taken from the operators above.      *)
(***************************************************************************)
\* the resolved initial condition of the current parameter snapshot
ResolvedInitial ==
    LET params == model.currentParamValues
    IN [x |-> IF "px" \in DOMAIN params THEN params["px"] ELSE def.initial[1],
        y |-> IF "py" \in DOMAIN params THEN params["py"] ELSE def.initial[2]]

\* the recorded baseline equals the current initial condition / snapshot
BaselineInitialCurrent ==
    ~fn.lastInitial.nan /\ fn.lastInitial.x = ResolvedInitial.x
                        /\ fn.lastInitial.y = ResolvedInitial.y

SomeParamDiffers ==
    \E k \in DOMAIN model.currentParamValues :
        IF k \in DOMAIN fn.lastParams
        THEN model.currentParamValues[k] # fn.lastParams[k] ELSE TRUE

\* the states of `data` at indices 0, stride, 2 * stride, ... below its length
EveryNth(data, stride) ==
    [j \in 1 .. ((Len(data) + stride - 1) \div stride) |->
        data[(j - 1) * stride + 1]]

\* the stride the spacing stands for: max(1, floor(L * spacing)) for a
\* fraction in (0, 1), the spacing itself for an integer >= 1
StrideOf(spacing, L) ==
    IF spacing.n < spacing.d
    THEN (IF (L * spacing.n) \div spacing.d >= 1
          THEN (L * spacing.n) \div spacing.d ELSE 1)
    ELSE spacing.n

PositiveNumber(v) == v.t = "num" /\ v.n > 0 /\ (v.d = 1 \/ v.n < v.d)

\* C1: after any call of generateData() the trajectory has steps + 1 states
\* and its first state is the resolved initial condition (px / py of the
\* snapshot where defined, else the static pair).
C1_GenerateDataFullTrajectory ==
    call.op = "generateData" =>
        /\ Len(fn.data) = fn.steps + 1
        /\ fn.data[1] = ResolvedInitial

\* C2: over every operation, version never decreases or resets, and it grows
\* by exactly 1 with each regeneration (and only then), so that it counts
\* the regenerations.
C2_VersionStep ==
    /\ fn'.version >= fn.version
    /\ call'.regenerated => fn'.version = fn.version + 1
    /\ ~call'.regenerated => fn'.version = fn.version
    /\ fn'.version = hist'.regens

C2_VersionMonotone == [][C2_VersionStep]_vars

\* C2 witness: a second regeneration has taken version from 1 to 2.
C2_Witness == call.regenerated /\ fn.version = 2 /\ hist.regens = 2

\* C3: a gate tick update(false) on a non-empty trajectory, with the
\* resolved initial condition and the parameter snapshot equal to the
\* recorded ones, reports unchanged and leaves version, data, dots,
\* lastInitial and lastParams as they were.
C3_NonStaleTick ==
    (/\ call'.op = "gate" /\ ~call'.force
     /\ Len(fn.data) > 0
     /\ BaselineInitialCurrent
     /\ fn.lastParams = model.currentParamValues)
    => (/\ fn'.hasChanged = FALSE
        /\ fn'.version = fn.version
        /\ fn'.data = fn.data
        /\ fn'.dots = fn.dots
        /\ fn'.lastInitial = fn.lastInitial
        /\ fn'.lastParams = fn.lastParams)

C3_NonStaleTickChangesNothing == [][C3_NonStaleTick]_vars

\* C3 witness: such a tick has run on a function that holds a trajectory and
\* dots, right after a tick that regenerated.
C3_Witness ==
    /\ call.op = "gate" /\ ~call.force /\ ~call.stale
    /\ fn.version >= 1 /\ fn.dots # <<>>
    /\ BaselineInitialCurrent
    /\ fn.lastParams = model.currentParamValues

\* C4: a gate tick update(force) regenerates (version + 1, hasChanged and the
\* graph's hasChanged set, the current initial condition and snapshot
\* recorded as the baseline) if and only if force is set, or the trajectory
\* is empty, or the resolved initial condition differs from the recorded
\* one, or some parameter's value differs from its recorded value.
C4_GateTick ==
    call'.op = "gate" =>
        ((\/ call'.force
          \/ Len(fn.data) = 0
          \/ ~BaselineInitialCurrent
          \/ SomeParamDiffers)
         <=> (/\ fn'.version = fn.version + 1
              /\ fn'.hasChanged /\ fn'.graphHasChanged
              /\ fn'.lastInitial = [nan |-> FALSE, x |-> ResolvedInitial.x,
                                    y |-> ResolvedInitial.y]
              /\ fn'.lastParams = model.currentParamValues))

C4_StaleIffRegenerated == [][C4_GateTick]_vars

\* C5: after every gate tick each dynamic attribute holds the value of its
\* configured expression in the scope of that tick.
C5_AttributesFollowExpressions ==
    call.op = "gate" =>
        \A name \in DynamicAttributes :
            fn[name] = evaluateExpr(def[name], model)

\* C6: with dots enabled and a non-empty trajectory of length L,
\* generateDots() returns the states at indices 0, stride, 2 * stride, ...
\* below L, the stride being max(1, floor(L * spacing)) for a fractional
\* spacing and the spacing for an integer one; index 0 comes first.
C6_DotsAtStride ==
    (/\ call.op = "generateDots"
     /\ Truthy(fn.showDots) /\ Len(fn.data) > 0
     /\ PositiveNumber(fn.dotSpacing))
    => (/\ call.ret = EveryNth(fn.data,
                               StrideOf(fn.dotSpacing, Len(fn.data)))
        /\ call.ret[1] = fn.data[1])

\* C6 witness: generateDots() has sampled a trajectory of four states with
\* the fractional spacing 1/2, which gives two dots.
C6_Witness ==
    /\ call.op = "generateDots"
    /\ fn.dotSpacing = Frac(1, 2) /\ Truthy(fn.showDots)
    /\ Len(fn.data) = 4 /\ Len(call.ret) = 2

\* C7: after gate updates, scheduler updates and parameter changes, dots is
\* the sampling of the current data at its stride, and it is empty whenever
\* dots are disabled or the trajectory is empty.
C7_DotsOfCurrentTrajectory ==
    hist.direct = 0 =>
        IF Truthy(fn.showDots) /\ Len(fn.data) > 0
        THEN PositiveNumber(fn.dotSpacing) =>
                fn.dots = EveryNth(fn.data,
                                   StrideOf(fn.dotSpacing, Len(fn.data)))
        ELSE fn.dots = <<>>

\* C8: at most one motion loop (pending animation-frame callback) exists at
\* any instant, an active scheduler has exactly the one its handle names,
\* and a start while Playing leaves exactly one.
C8_AtMostOneMotionLoop ==
    /\ Cardinality(host.frames) <= 1
    /\ anim.active => \E c \in host.frames : c.id = anim.handle
    /\ call.started => Cardinality(host.frames) = 1

\* C8 witness: a motion loop has been started while one was active, and one
\* loop is pending.
C8_Witness ==
    call.restarted /\ anim.active /\ Cardinality(host.frames) = 1

\* C9: at most one restart timer is pending at any instant, and
\* _restartTimeout is non-null exactly when one is pending (and names it).
C9_AtMostOneRestartTimer ==
    /\ Cardinality(host.timers) <= 1
    /\ (anim.restartTimeout # 0) <=> (host.timers # {})
    /\ \A c \in host.timers : c.id = anim.restartTimeout

\* C9 witness: an update() has cancelled a pending timer and armed a new one.
C9_Witness ==
    call.replaced /\ anim.restartTimeout # 0 /\ Cardinality(host.timers) = 1

C11_ExpiryEntersPlaying ==
    (call.op = "timer" /\ Len(fn.data) > 0) =>
        /\ anim.active
        /\ \E c \in host.frames : c.id = anim.handle
        /\ dom.movingDot.present

\* what holds of a scheduler once stop() has returned
Stopped(w) ==
    /\ ~w.anim.active
    /\ w.anim.handle = 0
    /\ w.host.frames = {}
    /\ ~w.dom.movingDot.present

\* C12: in every scheduler state stop() leaves no motion loop, the active
\* flag false, the handle null and the marker removed; a second stop()
\* changes nothing; the pending restart timer and the paused flag are as
\* before.
C12_StopIdempotentAndSafe ==
    /\ Stopped(stop(World))
    /\ stop(stop(World)) = stop(World)
    /\ stop(World).anim.paused = anim.paused
    /\ stop(World).anim.restartTimeout = anim.restartTimeout
    /\ stop(World).host.timers = host.timers
    /\ call.op = "stop" => Stopped(World) /\ stop(World) = World

\* C12 witness: stop() has ended a motion loop while a restart timer was
\* pending, and the timer is still pending.
C12_Witness ==
    /\ call.op = "stop" /\ Stopped(World)
    /\ anim.restartTimeout # 0 /\ host.timers # {}

\* C13: once stop() has returned, no animation-frame callback of the
\* stopped loop can move the marker or re-schedule itself, also when a new
\* loop has been started meanwhile: every callback still pending is the one
\* the handle of the running loop names (handles are never reused), and a
\* stopped scheduler has none pending.
C13_NoCallbackOfStoppedLoop ==
    /\ \A c \in host.frames : anim.active /\ c.id = anim.handle
    /\ call.op \in {"stop", "pause"} => host.frames = {}

\* C13 witness: resume() has started a new loop right after pause() stopped
\* one whose next callback had not run; only the new loop's callback is
\* pending.
C13_Witness ==
    /\ call.op = "resume" /\ call.started
    /\ host.nextFrame >= 3
    /\ \E c \in host.frames :
         c.id = anim.handle /\ c.id = host.nextFrame - 1 /\ c.frameN = 0

\* pause() as the claim has it, applied to the current state
PauseAsClaimed ==
    IF anim.active
    THEN /\ Stopped(pause(World))
         /\ pause(World).anim.paused
         /\ pause(World).anim.restartTimeout = anim.restartTimeout
         /\ pause(World).host.timers = host.timers
    ELSE pause(World) = World

\* resume() started exactly one motion loop, a new one, and cleared the flag
ResumedPlaying(r) ==
    /\ ~r.anim.paused
    /\ r.anim.active
    /\ Cardinality(r.host.frames) = 1
    /\ \A c \in r.host.frames : c.id = r.anim.handle /\ c.id = host.nextFrame

\* C14 as stated: pause() acts only in Playing (loop stopped, paused flag
\* set, timer untouched) and changes nothing otherwise; resume() acts only
\* when the paused flag is set, and then clears the flag and restarts
\* exactly one motion loop, whatever data and options it is handed.
C14_ResumeAlwaysRestarts ==
    /\ PauseAsClaimed
    /\ \A i \in ResumeInputs :
         IF anim.paused THEN ResumedPlaying(resume(World, i.data, i.opts))
         ELSE resume(World, i.data, i.opts) = World

\* C14 as amended: as above, but resume() restarts the loop only when it is
\* handed options with animation on and a non-empty trajectory; otherwise it
\* clears the flag and leaves the scheduler stopped.  The restart timer is
\* untouched either way.
C14_PauseResume ==
    /\ PauseAsClaimed
    /\ \A i \in ResumeInputs :
         IF anim.paused
         THEN /\ IF Truthy(i.opts.animation) /\ Len(i.data) > 0
                 THEN ResumedPlaying(resume(World, i.data, i.opts))
                 ELSE /\ Stopped(resume(World, i.data, i.opts))
                      /\ ~resume(World, i.data, i.opts).anim.paused
              /\ resume(World, i.data, i.opts).host.timers = host.timers
              /\ resume(World, i.data, i.opts).anim.restartTimeout
                    = anim.restartTimeout
         ELSE resume(World, i.data, i.opts) = World
    /\ call.op = "pause" => anim.paused /\ Stopped(World)
    /\ call.op = "resume" => ~anim.paused /\ (call.started <=> anim.active)

\* C14 witness: a resume() in the paused state, handed no data or options
\* with animation off, has cleared the flag and started no loop.
C14_Witness ==
    /\ call.op = "resume" /\ ~call.started
    /\ ~anim.paused /\ Stopped(World)

\* clamp(floor(t / dt), 0, length - 1)
ClampedIndex(f, t) == Max(0, Min(t \div f.dt, Len(f.data) - 1))

\* C15: for a non-empty trajectory evaluate(t) returns the state at index
\* clamp(floor(t/dt), 0, length-1), for negative t (the first state) and for
\* t past the end (the last state) alike, and what an evaluate() call
\* returned is always a state of the trajectory.
C15_EvaluateClamps ==
    Len(fn.data) > 0 =>
        /\ \A t \in EvaluateTimes :
             evaluate(fn, t) = <<fn.data[ClampedIndex(fn, t) + 1]>>
        /\ call.op = "evaluate" =>
             \E i \in 1..Len(fn.data) : call.ret = <<fn.data[i]>>

\* the formula is a single symbol that the snapshot does not define, so
\* that every evaluation of it throws
ThrowsOnEvaluation(formula) ==
    /\ Len(formula) = 1
    /\ formula[1] \notin DOMAIN model.currentParamValues \cup {"x", "y"}
    /\ formula[1] \notin DOMAIN NumLit

\* the formula is a single parameter of the snapshot
IsParameter(formula) ==
    Len(formula) = 1 /\ formula[1] \in DOMAIN model.currentParamValues

\* C16: when every evaluation of dxdt throws and dydt is a parameter p, a
\* regeneration does not throw, the trajectory has steps + 1 states, x stays
\* at its initial value (the failing component counts as 0) and y is still
\* integrated: state i has y = y0 + i * dt * p.
C16_ThrowingDerivativeIsZero ==
    (/\ call.op \in {"gate", "generateData"}
     /\ call.stale \/ call.op = "generateData"
     /\ ThrowsOnEvaluation(def.dxdt) /\ IsParameter(def.dydt))
    => /\ ~call.threw /\ call.regenerated
       /\ Len(fn.data) = def.steps + 1
       /\ \A i \in 0 .. def.steps :
            /\ fn.data[i + 1].x = ResolvedInitial.x
            /\ fn.data[i + 1].y = ResolvedInitial.y
                  + i * def.dt * model.currentParamValues[def.dydt[1]]

\* C16 witness: a regeneration with a throwing dxdt has produced a full
\* trajectory whose y has moved while x has not.
C16_Witness ==
    /\ call.regenerated /\ call.op = "gate"
    /\ ThrowsOnEvaluation(def.dxdt) /\ IsParameter(def.dydt)
    /\ Len(fn.data) = def.steps + 1
    /\ fn.data[Len(fn.data)].y # fn.data[1].y
    /\ fn.data[Len(fn.data)].x = fn.data[1].x

\* a formula that ends in an operator is no expression: compiling it fails
EndsInOperator(formula) ==
    Len(formula) > 0 /\ formula[Len(formula)] \in {"+", "-", "*"}

\* C17: a regeneration (a direct generateData() or a stale update()) of a
\* function one of whose formulas does not compile does not throw and
\* leaves a trajectory of steps + 1 states.
C17_CompileFailureNotPropagated ==
    (/\ call.op \in {"gate", "generateData"}
     /\ call.stale \/ call.op = "generateData"
     /\ EndsInOperator(def.dxdt) \/ EndsInOperator(def.dydt))
    => /\ ~call.threw
       /\ Len(fn.data) = def.steps + 1

\* C18: a generateData() that follows a regeneration directly (so that no
\* parameter, initial condition, formula, steps or dt has changed in
\* between) leaves the same trajectory, state for state, and the function
\* object differs from the one before in nothing but version, which is
\* larger by exactly 1.
C18_RepeatStep ==
    (call.regenerated /\ call'.op = "generateData")
    => /\ ~call'.threw
       /\ Len(fn'.data) = Len(fn.data)
       /\ \A i \in 1 .. Len(fn.data) : fn'.data[i] = fn.data[i]
       /\ fn' = [fn EXCEPT !.version = fn.version + 1]

C18_GenerateDataRepeatable == [][C18_RepeatStep]_vars

\* C18 witness: a second regeneration, by generateData(), in a run without
\* any parameter change, has a full trajectory that has moved away from its
\* initial state.
C18_Witness ==
    /\ call.op = "generateData" /\ call.regenerated
    /\ fn.version = 2 /\ hist.paramChanges = 0
    /\ Len(fn.data) = def.steps + 1
    /\ fn.data[Len(fn.data)] # fn.data[1]

RECURSIVE bigLessFrom(_, _, _)
bigLessFrom(a, b, i) ==
    IF i = 0 THEN FALSE
    ELSE IF a[i] # b[i] THEN a[i] < b[i]
    ELSE bigLessFrom(a, b, i - 1)

\* a <= b for two whole numbers
BigAtMost(a, b) ==
    IF Len(a) # Len(b) THEN Len(a) < Len(b) ELSE ~bigLessFrom(b, a, Len(a))

\* |p - q| <= n * 2^-50 * q for two doubles: both are brought to the lower
\* of the two exponents and compared as whole numbers
WithinRounding(p, q, n) ==
    IF Len(p.m) = 0 \/ Len(q.m) = 0 THEN p = q
    ELSE LET lo == Min(p.e, q.e)
             close(a, b, tol) == /\ BigAtMost(a, bigAdd(b, tol))
                                 /\ BigAtMost(b, bigAdd(a, tol))
             of(a, b) == close(a, b, bigShr(bigMulLimb(b, n, 0), 50))
         IN of(bigShl(p.m, p.e - lo), bigShl(q.m, q.e - lo))

\* the value of the expression x0 + i * dt * a, computed in doubles
Linear(x0, i, dt, a) ==
    fAdd(fromInt(x0), fMul(fMul(fromInt(i), dt), fromInt(a)))

\* the state (x0 + i * dt * a, y0 + i * dt * b) of the definition
LinearState(i) ==
    [x |-> Linear(def.initial[1], i, def.dt, NumLit[def.dxdt[1]]),
     y |-> Linear(def.initial[2], i, def.dt, NumLit[def.dydt[1]])]

\* the example of the claim: dx/dt = 1, dy/dt = 0 from (0, 0) with dt = 0.1,
\* after its 10 steps
ExampleDone ==
    /\ def.dxdt = <<"1">> /\ def.dydt = <<"0">> /\ def.initial = <<0, 0>>
    /\ def.dt = DoubleTenth
    /\ Len(fn.data) = 11

\* C19 as stated: with constant derivatives a and b every state i of the
\* trajectory equals (x0 + i * dt * a, y0 + i * dt * b), and the example
\* ends in state 10 = (1.0, 0.0).
C19_ConstantDerivativesExact ==
    /\ \A i \in 0 .. Len(fn.data) - 1 : fn.data[i + 1] = LinearState(i)
    /\ ExampleDone => fn.data[11] = [x |-> fromInt(1), y |-> fromInt(0)]

\* 0.9999999999999999, the double below 1: (2^53 - 1) * 2^-53
BelowOne == [m |-> <<16383, 16383, 16383, 2047>>, e |-> -53]

\* C19 as amended: every state i equals (x0 + i * dt * a, y0 + i * dt * b)
\* up to rounding, each coordinate within (i + 1) * 2^-50 times the value
\* (|x0| + |i * dt * a|, all being non-negative here), and the example ends
\* in state 10 =
\* (0.9999999999999999, 0.0).
C19_ConstantDerivativesWithinRounding ==
    /\ \A i \in 0 .. Len(fn.data) - 1 :
         /\ WithinRounding(fn.data[i + 1].x, LinearState(i).x, i + 1)
         /\ WithinRounding(fn.data[i + 1].y, LinearState(i).y, i + 1)
    /\ ExampleDone => fn.data[11] = [x |-> BelowOne, y |-> fromInt(0)]

\* C19 witness: the example has run its 10 steps and state 10 is not
\* (1.0, 0.0).
C19_Witness ==
    /\ ExampleDone
    /\ fn.data[11].x # fromInt(1)
    /\ call.op = "generateData"

\* The reference of C20.  The text of a string is what stands between its
\* surrounding blanks.
TextOf(s) ==
    LET inked == {i \in 1 .. Len(s) : s[i] # " "}
    IN IF inked = {} THEN <<>>
       ELSE SubSeq(s, CHOOSE i \in inked : \A j \in inked : i <= j,
                      CHOOSE i \in inked : \A j \in inked : i >= j)

IsLiteralText(c) == Len(c) > 0 /\ c[1] \in {"'", "\"", "#", "rgb", "hsl"}

\* the text without the quote at its start and the quote at its end
Unquoted(c) ==
    LET lo == IF c[1] \in {"'", "\""} THEN 2 ELSE 1
        hi == IF Len(c) >= lo /\ c[Len(c)] \in {"'", "\""}
              THEN Len(c) - 1 ELSE Len(c)
    IN SubSeq(c, lo, hi)

\* what a bare name stands for: a color, a calculated value or a parameter
NameBound(n, m) ==
    n \in DOMAIN m.currentColors \cup DOMAIN m.currentCalcValues
          \cup DOMAIN m.currentParamValues

NameValue(n, m) ==
    CASE n \in DOMAIN m.currentColors -> Str(m.currentColors[n])
      [] n \in DOMAIN m.currentCalcValues -> Num(m.currentCalcValues[n])
      [] OTHER -> Num(m.currentParamValues[n])

\* a term of a formula: a constant or a bound name; none = <<>>
TermValue(tok, m) ==
    CASE tok = "true" -> <<Bool(TRUE)>>
      [] tok = "false" -> <<Bool(FALSE)>>
      [] tok \in {"0", "1", "2", "3"} -> <<Num(NumLit[tok])>>
      [] tok \in {"params", "calcs", "colors", ".", "+", "#", "rgb", "hsl",
                  "'", "\""} -> <<>>
      [] NameBound(tok, m) -> <<NameValue(tok, m)>>
      [] OTHER -> <<>>

\* the value of a formula, <<value>>, or <<>> when its evaluation fails
FormulaValue(s, m) ==
    LET c == SelectSeq(s, LAMBDA tok : tok # " ")
        member(o) == IF c[3] \in DOMAIN o THEN <<Num(o[c[3]])>> ELSE <<Undef>>
        sum(l, r) ==
            IF l # <<>> /\ r # <<>> /\ l[1].t = "num" /\ r[1].t = "num"
               /\ l[1].d = 1 /\ r[1].d = 1
            THEN <<Num(l[1].n + r[1].n)>> ELSE <<>>
    IN CASE Len(c) = 1 -> TermValue(c[1], m)
         [] Len(c) = 3 /\ c[2] = "." /\ c[1] = "params"
            /\ c[3] \notin {"0", "1", "2", "3", ".", "+"} ->
                member(m.currentParamValues)
         [] Len(c) = 3 /\ c[2] = "." /\ c[1] = "calcs"
            /\ c[3] \notin {"0", "1", "2", "3", ".", "+"} ->
                member(m.currentCalcValues)
         [] Len(c) = 3 /\ c[2] = "+" -> sum(TermValue(c[1], m), TermValue(c[3], m))
         [] OTHER -> <<>>

ReferenceValue(expr, m) ==
    IF expr.t \in {"undef", "bool", "num"} THEN expr
    ELSE IF IsLiteralText(TextOf(expr.s)) THEN Str(Unquoted(TextOf(expr.s)))
    ELSE IF FormulaValue(expr.s, m) # <<>> THEN FormulaValue(expr.s, m)[1]
    ELSE expr

\* the expressions evaluateExpr is compared on
ExprInputs ==
    {Undef, Bool(TRUE), Bool(FALSE), Num(3), Num(0), Frac(1, 2)}
    \cup {Str(s) : s \in
            {<<"#", "0f0">>, <<"'", "#", "0f0", "'">>,
             <<"\"", "green", "\"">>, <<"rgb">>, <<"hsl">>,
             <<" ", "'", "a", "+", "s", "'", " ">>, <<"'", "a">>, <<"'">>,
             <<"a", "+", "s">>, <<"a", " ", "+", " ", "2">>, <<"a", "+">>,
             <<"a">>, <<" ", "s">>, <<"q">>,
             <<"blue">>, <<"green">>, <<"true">>, <<"false">>, <<"1">>,
             <<"params", ".", "s">>, <<"params", ".", "q">>,
             <<"calcs", ".", "a">>}}

\* C20: evaluateExpr agrees with the reference on every input: undefined,
\* booleans and numbers come back unchanged; a string whose text starts
\* with a quote, '#', 'rgb' or 'hsl' comes back as that text without its
\* surrounding quotes and is not evaluated; any other string is evaluated
\* with parameter, calc and color names as bare identifiers (a + s with
\* a = 2, s = 1 gives 3), and comes back unchanged when that fails.  The
\* attributes of a fresh function are the reference values of the
\* definition's expressions.
C20_EvaluateExprAgrees ==
    /\ \A e \in ExprInputs : evaluateExpr(e, model) = ReferenceValue(e, model)
    /\ (/\ "a" \in DOMAIN model.currentParamValues
        /\ "s" \in DOMAIN model.currentParamValues)
       => evaluateExpr(Str(<<"a", "+", "s">>), model)
             = Num(model.currentParamValues["a"]
                   + model.currentParamValues["s"])
    /\ call.op = "new" =>
         \A name \in DynamicAttributes \cup {"restartDelay"} :
            fn[name] = ReferenceValue(def[name], model)

\* C20 witness: a = 2 and s = 1, where a + s evaluates to 3, in a function
\* built from expressions: its quoted color has come back without quotes.
C20_Witness ==
    /\ "s" \in DOMAIN model.currentParamValues
    /\ model.currentParamValues["a"] = 2 /\ model.currentParamValues["s"] = 1
    /\ evaluateExpr(Str(<<"a", "+", "s">>), model) = Num(3)
    /\ def.dotColor = Str(<<"'", "#", "0f0", "'">>)
    /\ fn.dotColor = Str(<<"#", "0f0">>)
    /\ def.speed = Str(<<"a", "+", "s">>) /\ fn.speed.t = "num"

\* C21: with two animated curves, while the second curve is Playing its
\* moving marker is present and its own motion loop is pending, whatever
\* the first curve's scheduler has done (update, start, stop, pause, resume).
C21_CurvesIndependent ==
    peer.anim.active =>
        /\ dom.others.present
        /\ \E c \in peer.frames : c.id = peer.anim.handle

\* the function's animation attribute, resolved for the current snapshot,
\* is true (as a boolean, as 1, or as the text of either)
AnimationEnabled ==
    ReferenceValue(fn.animation, model)
        \in {Bool(TRUE), Num(1), Str(<<"true">>), Str(<<"1">>)}

\* a restart timer is pending: the scheduler holds the handle of a timeout
\* the host has not yet run or cleared
TimerPending ==
    anim.restartTimeout # 0 /\ \E c \in host.timers : c.id = anim.restartTimeout

\* C22: right after update(curve, fn) has returned no motion loop is
\* running, and a restart timer is pending if and only if the function's
\* resolved animation attribute is true; when it is false there is neither
\* loop nor timer.
C22_ArmedIffAnimationEnabled ==
    (call.op \in {"redraw", "curveUpdate"} /\ ~call.threw)
    => /\ ~anim.active /\ anim.handle = 0 /\ host.frames = {}
       /\ TimerPending <=> AnimationEnabled
       /\ ~AnimationEnabled => anim.restartTimeout = 0 /\ host.timers = {}

\* C23: every update() destroys the previous session in full: after an
\* update() has returned the paused flag is clear, and a resume() in that
\* state changes nothing, for any data and options.
C23_UpdateClearsPaused ==
    (call.op \in {"redraw", "curveUpdate"} /\ ~call.threw)
    => /\ ~anim.paused
       /\ \A i \in ResumeInputs : resume(World, i.data, i.opts) = World

\* C24: while Playing over a trajectory of length L the frame position of
\* the loop (frameN / speed.d) lies in [0, L) after every frame callback,
\* for every speed and every elapsed time; its floor is an index of the
\* trajectory, and the marker stands at that sample.
C24_FramePositionInRange ==
    \A c \in host.frames :
        /\ c.frameN >= 0
        /\ c.frameN < Len(c.data) * c.speed.d
        /\ call.op = "frame" =>
             /\ dom.movingDot.present
             /\ dom.movingDot.cx = c.data[c.frameN \div c.speed.d + 1].x
             /\ dom.movingDot.cy = c.data[c.frameN \div c.speed.d + 1].y

\* C25: a Curve.update(force) redraws, and so calls the scheduler's
\* update(), exactly when force is set or the function's hasChanged is
\* true.  A Curve.update(false) that finds hasChanged false leaves the
\* function (version and data included), the scheduler's fields, the
\* pending timers and animation frames and the markers as they were; one
\* that redraws without throwing has run the scheduler's update(), which
\* stops the loop.
C25_CurveUpdateStep ==
    /\ call'.op = "curveUpdateNoRedraw" =>
         /\ ~call'.force /\ ~fn.hasChanged
         /\ UNCHANGED <<fn, model, anim, host, dom, hist>>
    /\ call'.op = "curveUpdate" =>
         /\ call'.force \/ fn.hasChanged
         /\ ~call'.threw => /\ ~anim'.active /\ host'.frames = {}
                            /\ fn'.version = fn.version + 1

C25_RedrawOnlyWhenNeeded == [][C25_CurveUpdateStep]_vars

C25_Witness ==
    /\ call.op = "curveUpdateNoRedraw"
    /\ anim.active
    /\ \E c \in host.frames : c.id = anim.handle
    /\ fn.version > 0

\* C26: the scheduler's update() regenerates the trajectory only if needed:
\* when the gate tick has just regenerated it and reported the change, the
\* redraw that follows leaves version and data as the gate left them, so the
\* stale tick and its redraw raise version by exactly 1.
C26_RedrawAfterGateStep ==
    (/\ call.op = "gate" /\ call.regenerated
     /\ call'.op \in {"curveUpdate", "redraw"} /\ ~call'.threw)
    => /\ fn'.version = fn.version
       /\ fn'.data = fn.data

C26_RedrawDoesNotRegenerateAgain == [][C26_RedrawAfterGateStep]_vars

\* the trajectory that a regeneration from the recorded baseline yields
BaselineTrajectory ==
    generateData(fn, [model EXCEPT !.currentParamValues = fn.lastParams]).fn.data

\* C27: the recorded baseline is never ahead of the trajectory.  A gate
\* tick whose regeneration throws leaves lastInitial and lastParams as they
\* were; after a gate tick that reports unchanged, the trajectory is the one
\* generated from the recorded parameter snapshot (and the initial condition
\* it resolves to, which is the recorded one); and the tick that follows a
\* tick whose regeneration threw is stale again.
C27_BaselineStep ==
    /\ (call'.op = "gate" /\ call'.threw) =>
          /\ fn'.lastInitial = fn.lastInitial
          /\ fn'.lastParams = fn.lastParams
    /\ (call.op = "gate" /\ ~call.threw /\ ~call.stale) =>
          /\ ~fn.hasChanged
          /\ Len(fn.data) > 0
          /\ fn.data = BaselineTrajectory
          /\ ~changedInitial(fn, resolveInitial(fn, fn.lastParams))
    /\ (call.op = "gate" /\ call.threw /\ call'.op = "gate") => call'.stale

C27_BaselineNotAheadOfTrajectory == [][C27_BaselineStep]_vars

\* C28: in every reachable state of the scheduler the active flag and the
\* paused flag are not both true, and the loop handle is non-null only
\* while the active flag is true.
C28_PlayingPausedExclusive ==
    /\ ~(anim.active /\ anim.paused)
    /\ anim.handle # 0 => anim.active

====
